---- MODULE Spec2Model ----
(***************************************************************************)
(* Model of src/worker-script/index.js: the worker's dispatch layer.       *)
(*                                                                         *)
(* State: the module-level variables TessModule, api, latestJob, params,   *)
(* the messages handed to `send`, and the promises of the asynchronous     *)
(* collaborators (Core, loadLang) that have not settled yet.  One action   *)
(* per dispatched envelope (the whole synchronous run of dispatchHandlers  *)
(* and the handler it selects) and one per promise callback.  Every        *)
(* collaborator call may return or throw; the choice is an input of the    *)
(* action.  The engine reports progress through TesseractProgress while    *)
(* it recognizes (line 52: 'recognizing text'), that is, inside the call   *)
(* of api.Recognize.                                                       *)
(***************************************************************************)
EXTENDS Integers, Sequences, FiniteSets, TLC

VARIABLES
  TessModule,  \* line 20: 0 while undefined, else the id of the module
  api,         \* line 24: the TessBaseAPI instance, NoApi while undefined
  latestJob,   \* line 25: the envelope of the responder stored last
  params,      \* line 27: the stored parameter object
  sent,        \* the envelopes handed to `send`, in order, of the responders
               \* still referenced (jobId, status, progress)
  pending,     \* promises of Core / loadLang not settled yet
  nextJob,     \* number of envelopes dispatched so far
  ticks,       \* number of native progress callbacks so far
  isBrowser,   \* line 12: fixed by the host environment
  last         \* the step just taken: envelope, collaborator calls, messages

vars == <<TessModule, api, latestJob, params, sent, pending, nextJob, ticks,
          isBrowser, last>>

(***************************************************************************)
(* Bounds                                                                  *)
(***************************************************************************)
MaxJobs == 4
MaxTicks == 2

(***************************************************************************)
(* JavaScript objects with string keys: a sequence of <<key, value>> pairs *)
(* with distinct keys, in insertion order (the order of Object.keys).      *)
(***************************************************************************)
ObjKeys(o) == [i \in 1..Len(o) |-> o[i][1]]

HasKey(o, k) == \E i \in 1..Len(o) : o[i][1] = k

Get(o, k) == o[CHOOSE i \in 1..Len(o) : o[i][1] = k][2]

\* o with key k set to v: in place when k is present, appended otherwise
Put(o, k, v) ==
  IF HasKey(o, k)
  THEN [i \in 1..Len(o) |-> IF o[i][1] = k THEN <<k, v>> ELSE o[i]]
  ELSE Append(o, <<k, v>>)

\* { ...a, ...b }
RECURSIVE Spread(_, _)
Spread(a, b) ==
  IF b = <<>> THEN a
  ELSE Spread(Put(a, Head(b)[1], Head(b)[2]), Tail(b))

\* String.prototype.startsWith
StartsWith(s, p) == Len(s) >= Len(p) /\ SubSeq(s, 1, Len(p)) = p

ReservedPrefix == "tessjs_"

\* Object.keys(o) without the filter of line 99
EngineEntriesAll(o) == o

\* Object.keys(o).filter(k => !k.startsWith('tessjs_')), with the values
RECURSIVE EngineEntries(_)
EngineEntries(o) ==
  IF o = <<>> THEN <<>>
  ELSE IF StartsWith(Head(o)[1], ReservedPrefix)
       THEN EngineEntries(Tail(o))
       ELSE <<Head(o)>> \o EngineEntries(Tail(o))

(***************************************************************************)
(* Errors and their stringification (Error.prototype.toString)             *)
(***************************************************************************)
NoErr == [name |-> "", message |-> "", dom |-> FALSE]

\* the TypeError of reading a property of undefined (message as V8 words it)
TypeErr(prop) ==
  [name |-> "TypeError",
   message |-> "Cannot read properties of undefined (reading '" \o prop \o "')",
   dom |-> FALSE]

EngineErr(m) == [name |-> "Error", message |-> m, dom |-> FALSE]

AbortErr == [name |-> "RuntimeError", message |-> "", dom |-> FALSE]

DomErr == [name |-> "DOMException", message |-> "quota", dom |-> TRUE]

ErrToString(e) ==
  IF e.name = "" THEN e.message
  ELSE IF e.message = "" THEN e.name
  ELSE e.name \o ": " \o e.message

(***************************************************************************)
(* Values                                                                  *)
(***************************************************************************)
\* A session: id names the initialize that constructed it, tm the engine
\* module it was constructed from; inited: Init returned; ready: that
\* initialize resolved; rejected: an initialize was rejected and left this
\* handle in api; ended: End returned, endedBy the action that called it;
\* pushed: the (key, value) pairs SetVariable took
NoApi ==
  [id |-> 0, tm |-> 0, inited |-> FALSE, ready |-> FALSE, rejected |-> FALSE,
   ended |-> FALSE, endedBy |-> "", pushed |-> {}]

\* the handle a rejected initialize leaves in api
Rejected(a) == IF a = NoApi THEN a ELSE [a EXCEPT !.rejected = TRUE]

\* End() returned on session a during `action`
Ended(a, action) ==
  [a EXCEPT !.ended = TRUE, !.endedBy = IF a.ended THEN @ ELSE action]

defaultParams ==
  << <<"tessedit_pageseg_mode", "3">>, <<"tessjs_create_pdf", "0">> >>

ParamPayloads ==
  { <<>>,
    << <<"tessjs_create_pdf", "1">> >>,
    << <<"tessjs_create_pdf", "1">>, <<"tessedit_char_whitelist", "ab">> >>,
    << <<"tessedit_pageseg_mode", "6">>, <<"tessedit_char_whitelist", "ab">> >> }

\* langs of an initialize payload: a string, an array of strings and
\* {data} objects, or missing
LangPayloads ==
  { [type |-> "string", str |-> "eng", arr |-> <<>>],
    [type |-> "array", str |-> "",
     arr |-> << [type |-> "string", str |-> "eng", data |-> ""],
                [type |-> "object", str |-> "", data |-> "chi_tra"] >>],
    [type |-> "array", str |-> "",
     arr |-> << [type |-> "object", str |-> "", data |-> "osd"] >>],
    [type |-> "undefined", str |-> "", arr |-> <<>>] }

Percents == {10, 100}

\* progress values are kept in units of 1/ProgressUnit
ProgressUnit == 70

Actions ==
  {"load", "load-language", "initialize", "set-parameters", "recognize",
   "detect", "terminate"}

NoId == 0

WorkerId == "w1"

\* an inbound envelope; the payload fields an action does not read are empty
Packet(j, a, langs, ps) ==
  [workerId |-> WorkerId, jobId |-> j, action |-> a,
   payload |-> [langs |-> langs, params |-> ps, oem |-> 1]]

NoLangs == [type |-> "undefined", str |-> "", arr |-> <<>>]

NoPacket == Packet(NoId, "", NoLangs, <<>>)

(***************************************************************************)
(* The responder of lines 225-234: res(status, data) calls                 *)
(* send({...packet, status, data}).                                        *)
(***************************************************************************)
Res(packet, status, data) ==
  [workerId |-> packet.workerId, jobId |-> packet.jobId,
   action |-> packet.action, status |-> status, data |-> data]

\* the data object of a progress message
ProgressData(jobId, status, progress) ==
  [workerId |-> WorkerId, jobId |-> jobId, status |-> status,
   progress |-> progress]

\* what `sent` keeps of an envelope
Header(m) ==
  [jobId |-> m.jobId, status |-> m.status,
   progress |-> IF m.status = "progress" THEN m.data.progress ELSE -1]

Headers(ms) == [i \in 1..Len(ms) |-> Header(ms[i])]

\* A responder can send only while something still references it: the
\* variable latestJob, a callback of a pending promise, or the step that is
\* running.  The log keeps the messages of those envelopes.
Referenced(latest, pend, running) ==
  {latest.jobId, running.jobId} \cup {pd.packet.jobId : pd \in pend}

Log(log, out, keep) ==
  SelectSeq(log \o Headers(out), LAMBDA m : m.jobId \in keep)

\* a call into a collaborator: the engine module, the session, the adapter;
\* after: the number of messages the handler had sent when it made the call
Call(op, sess, args) ==
  [op |-> op, sess |-> sess.id, ended |-> sess.ended,
   endedBy |-> sess.endedBy, usable |-> sess.ready /\ ~sess.rejected,
   args |-> args, threw |-> FALSE, after |-> 0]

Throw(c) == [c EXCEPT !.threw = TRUE]

\* the call c made once the handler had sent n messages
After(c, n) == [c EXCEPT !.after = n]

AllAfter(cs, n) == [i \in 1..Len(cs) |-> After(cs[i], n)]

\* what a handler leaves behind when it returns or throws
Outcome(tm, a, p, out, calls, pend, thrown) ==
  [tm |-> tm, api |-> a, params |-> p, out |-> out, calls |-> calls,
   pend |-> pend, thrown |-> thrown]

Max(a, b) == IF a >= b THEN a ELSE b

(***************************************************************************)
(* lines 48-55: the engine's progress callback registered by load `by`,    *)
(* invoked while `latest` is the stored responder                          *)
(***************************************************************************)
\* the callback sending through the responder of the load that registered it
TesseractProgressOwnResponder(latest, by, percent) ==
  Res(Packet(by, "load", NoLangs, <<>>), "progress",
      ProgressData(by, "recognizing text", Max(0, percent - 30)))

TesseractProgress(latest, by, percent) ==
  Res(latest, "progress",
      ProgressData(by, "recognizing text", Max(0, percent - 30)))

(***************************************************************************)
(* Handlers.  Each takes the envelope and the behaviour of the             *)
(* collaborators it calls (`fail` names the call that throws, "none" when  *)
(* every call returns) and gives the Outcome of its synchronous run.       *)
(***************************************************************************)

\* lines 43-61: ask the adapter for the factory and call it.  The promise
\* of Core(...) stays pending; see CoreThen.
loadCore(packet, fail) ==
  LET getCore == Call("getCore", NoApi, <<>>)
      p0 == Res(packet, "progress",
                ProgressData(NoId, "initializing tesseract", 0))
      core == After(Call("Core", NoApi, <<>>), 1)
  IN IF fail = "getCore"
     THEN Outcome(TessModule, api, params, <<>>, <<Throw(getCore)>>, {},
                  EngineErr("getCore"))
     ELSE IF fail = "Core"
     THEN Outcome(TessModule, api, params, <<p0>>, <<getCore, Throw(core)>>, {},
                  AbortErr)
     ELSE Outcome(TessModule, api, params, <<p0>>, <<getCore, core>>,
                  {[kind |-> "load", packet |-> packet]}, NoErr)

\* load without the test of line 42
loadReconstructs(packet, fail) == loadCore(packet, fail)

\* lines 41-65
load(packet, fail) ==
  IF TessModule = 0
  THEN loadCore(packet, fail)
  ELSE Outcome(TessModule, api, params,
               <<Res(packet, "resolve", [loaded |-> TRUE])>>, <<>>, {}, NoErr)

\* loadLanguage with lines 80 and 81 exchanged: the loader is invoked
\* before progress 0 is sent
loadLanguageLoaderFirst(packet, fail) ==
  LET p0 == Res(packet, "progress",
                ProgressData(NoId, "loading language traineddata", 0))
      call == Call("loadLang", NoApi, <<packet.payload.langs.str>>)
  IN IF fail = "loadLang"
     THEN Outcome(TessModule, api, params, <<>>, <<Throw(call)>>, {},
                  EngineErr("loadLang"))
     ELSE Outcome(TessModule, api, params, <<p0>>, <<call>>,
                  {[kind |-> "load-language", packet |-> packet]}, NoErr)

\* lines 79-81: the synchronous part of loadLanguage
loadLanguage(packet, fail) ==
  LET p0 == Res(packet, "progress",
                ProgressData(NoId, "loading language traineddata", 0))
      call == After(Call("loadLang", NoApi, <<packet.payload.langs.str>>), 1)
  IN IF fail = "loadLang"
     THEN Outcome(TessModule, api, params, <<p0>>, <<Throw(call)>>, {},
                  EngineErr("loadLang"))
     ELSE Outcome(TessModule, api, params, <<p0>>, <<call>>,
                  {[kind |-> "load-language", packet |-> packet]}, NoErr)

\* lines 98-103: the pushes and the merge of setParameters on session a.
\* failAt = i > 0: the i-th SetVariable call throws.
SetVariableCalls(a, entries, failAt) ==
  [i \in 1..Len(entries) |->
     IF i = failAt THEN Throw(Call("SetVariable", a, entries[i]))
     ELSE Call("SetVariable", a, entries[i])]

\* setParameters merging each key into the store as soon as it is pushed
ApplyParamsMergeEach(a, p, newParams, failAt) ==
  LET entries == EngineEntries(newParams)
      n == Len(entries)
      done == IF failAt \in 1..n THEN failAt - 1 ELSE n
      a1 == [a EXCEPT !.pushed = @ \cup {entries[i] : i \in 1..done}]
  IN IF n > 0 /\ a = NoApi
     THEN [api |-> a, params |-> p, calls |-> <<>>,
           thrown |-> TypeErr("SetVariable")]
     ELSE IF failAt \in 1..n
     THEN [api |-> a1, params |-> Spread(p, SubSeq(entries, 1, done)),
           calls |-> SetVariableCalls(a, SubSeq(entries, 1, failAt), failAt),
           thrown |-> EngineErr("SetVariable")]
     ELSE [api |-> a1, params |-> Spread(p, newParams),
           calls |-> SetVariableCalls(a, entries, 0), thrown |-> NoErr]

\* setParameters with the pushes guarded by `if (api)`
ApplyParamsGuarded(a, p, newParams, failAt) ==
  LET entries == EngineEntries(newParams)
      n == Len(entries)
      done == IF failAt \in 1..n THEN failAt - 1 ELSE n
      a1 == [a EXCEPT !.pushed = @ \cup {entries[i] : i \in 1..done}]
  IN IF a = NoApi
     THEN [api |-> a, params |-> Spread(p, newParams), calls |-> <<>>,
           thrown |-> NoErr]
     ELSE IF failAt \in 1..n
     THEN [api |-> a1, params |-> p,
           calls |-> SetVariableCalls(a, SubSeq(entries, 1, failAt), failAt),
           thrown |-> EngineErr("SetVariable")]
     ELSE [api |-> a1, params |-> Spread(p, newParams),
           calls |-> SetVariableCalls(a, entries, 0), thrown |-> NoErr]

ApplyParams(a, p, newParams, failAt) ==
  LET entries == EngineEntries(newParams)
      n == Len(entries)
      done == IF failAt \in 1..n THEN failAt - 1 ELSE n
      a1 == [a EXCEPT !.pushed = @ \cup {entries[i] : i \in 1..done}]
  IN IF n > 0 /\ a = NoApi
     THEN [api |-> a, params |-> p, calls |-> <<>>,
           thrown |-> TypeErr("SetVariable")]
     ELSE IF failAt \in 1..n
     THEN [api |-> a1, params |-> p,
           calls |-> SetVariableCalls(a, SubSeq(entries, 1, failAt), failAt),
           thrown |-> EngineErr("SetVariable")]
     ELSE [api |-> a1, params |-> Spread(p, newParams),
           calls |-> SetVariableCalls(a, entries, 0), thrown |-> NoErr]

\* lines 97-108, called with a responder
setParameters(packet, failAt) ==
  LET r == ApplyParams(api, params, packet.payload.params, failAt)
  IN IF r.thrown # NoErr
     THEN Outcome(TessModule, r.api, r.params, <<>>, r.calls, {}, r.thrown)
     ELSE Outcome(TessModule, r.api, r.params,
                  <<Res(packet, "resolve", r.params)>>, r.calls, {}, NoErr)

\* l => l, without the typeof test: an object stringifies when joined
LangEntryAsIs(l) == IF l.type = "string" THEN l.str ELSE "[object Object]"

\* line 117: l => ((typeof l === 'string') ? l : l.data)
LangEntry(l) == IF l.type = "string" THEN l.str ELSE l.data

\* line 117: Array.prototype.map(LangEntry).join('+')
RECURSIVE JoinLangs(_)
JoinLangs(arr) ==
  IF arr = <<>> THEN ""
  ELSE IF Len(arr) = 1 THEN LangEntry(Head(arr))
  ELSE LangEntry(Head(arr)) \o "+" \o JoinLangs(Tail(arr))

\* lines 115-117
NormalizeLangs(langs) ==
  IF langs.type = "string" THEN langs.str ELSE JoinLangs(langs.arr)

\* line 125 with the default parameters in place of the stored ones
ReapplyDefaults(a, p, failAt) == ApplyParams(a, p, defaultParams, failAt)

\* line 125: setParameters({ payload: { params } }), no responder
Reapply(a, p, failAt) == ApplyParams(a, p, p, failAt)

\* lines 119-129: the try block of initialize; `caught` is what it throws
initializeTry(packet, fail, failAt) ==
  LET p0 == Res(packet, "progress",
                ProgressData(packet.jobId, "initializing api", 0))
      p1 == Res(packet, "progress",
                ProgressData(packet.jobId, "initialized api", ProgressUnit))
      langs == NormalizeLangs(packet.payload.langs)
      a0 == [NoApi EXCEPT !.id = packet.jobId, !.tm = TessModule]
      new == After(Call("TessBaseAPI", NoApi, <<>>), 1)
      init == After(Call("Init", a0, <<langs, packet.payload.oem>>), 1)
      a1 == [a0 EXCEPT !.inited = TRUE]
      r == Reapply(a1, params, failAt)
  IN IF TessModule = 0
     THEN [o |-> Outcome(TessModule, api, params, <<p0>>, <<>>, {}, NoErr),
           caught |-> TypeErr("TessBaseAPI")]
     ELSE IF fail = "TessBaseAPI"
     THEN [o |-> Outcome(TessModule, Rejected(api), params, <<p0>>,
                         <<Throw(new)>>, {}, NoErr),
           caught |-> EngineErr("TessBaseAPI")]
     ELSE IF fail = "Init"
     THEN [o |-> Outcome(TessModule, Rejected(a0), params, <<p0>>,
                         <<new, Throw(init)>>, {}, NoErr),
           caught |-> EngineErr("Init")]
     ELSE IF r.thrown # NoErr
     THEN [o |-> Outcome(TessModule, Rejected(r.api), r.params, <<p0>>,
                         <<new, init>> \o AllAfter(r.calls, 1), {}, NoErr),
           caught |-> r.thrown]
     ELSE [o |-> Outcome(TessModule, [r.api EXCEPT !.ready = TRUE], r.params,
                         <<p0, p1, Res(packet, "resolve", "undefined")>>,
                         <<new, init>> \o AllAfter(r.calls, 1), {}, NoErr),
           caught |-> NoErr]

\* initialize with an empty catch block
initializeSwallows(packet, fail, failAt) ==
  IF packet.payload.langs.type = "undefined"
  THEN Outcome(TessModule, api, params, <<>>, <<>>, {},
               TypeErr("map"))
  ELSE initializeTry(packet, fail, failAt).o

\* lines 110-133
initialize(packet, fail, failAt) ==
  LET t == initializeTry(packet, fail, failAt)
  IN IF packet.payload.langs.type = "undefined"
     THEN Outcome(TessModule, api, params, <<>>, <<>>, {},
                  TypeErr("map"))
     ELSE IF t.caught # NoErr
     THEN [t.o EXCEPT !.out = Append(@, Res(packet, "reject", ErrToString(t.caught)))]
     ELSE t.o

\* lines 150, 176: utils/setImage is a collaborator; it returns a buffer
\* handle or throws as the input says, whatever TessModule and api are
SetImageThrows(fail) == fail = "setImage"

SetImageErr == EngineErr("setImage")

\* a table of clockwise degrees
OrientationDegreesClockwise == <<0, 90, 180, 270>>

\* line 194
OrientationDegrees == <<0, 270, 180, 90>>

\* the engine reports each percent of `percents` through the callback of
\* lines 48-55 while Recognize runs; the stored responder is `latest`
NativeProgress(latest, by, percents) ==
  [i \in 1..Len(percents) |-> TesseractProgress(latest, by, percents[i])]

\* lines 148-160
recognize(packet, fail, percents) ==
  LET ptr == packet.jobId
      Reject(e) == Res(packet, "reject", ErrToString(e))
      setImage == Call("setImage", api, <<ptr>>)
      rec == Call("Recognize", api, <<>>)
      \* the callback of the module the session belongs to; line 236 has
      \* stored this envelope's responder in latestJob
      cb == NativeProgress(packet, api.tm, percents)
      getFiles == After(Call("getFiles", api, <<>>), Len(cb))
      dump == After(Call("dump", api, <<>>), Len(cb))
      free == After(Call("_free", NoApi, <<ptr>>), Len(cb) + 1)
  IN IF SetImageThrows(fail)
     THEN Outcome(TessModule, api, params, <<Reject(SetImageErr)>>,
                  <<Throw(setImage)>>, {}, NoErr)
     ELSE IF api = NoApi
     THEN Outcome(TessModule, api, params,
                  <<Reject(TypeErr("Recognize"))>>,
                  <<setImage>>, {}, NoErr)
     ELSE IF fail = "Recognize"
     THEN Outcome(TessModule, api, params, cb \o <<Reject(EngineErr("Recognize"))>>,
                  <<setImage, Throw(rec)>>, {}, NoErr)
     ELSE IF fail = "getFiles"
     THEN Outcome(TessModule, api, params, cb \o <<Reject(EngineErr("getFiles"))>>,
                  <<setImage, rec, Throw(getFiles)>>, {}, NoErr)
     ELSE IF fail = "dump"
     THEN Outcome(TessModule, api, params, cb \o <<Reject(EngineErr("dump"))>>,
                  <<setImage, rec, getFiles, Throw(dump)>>, {}, NoErr)
     \* line 156 runs after the resolve of line 152, inside the try
     ELSE IF TessModule = 0
     THEN Outcome(TessModule, api, params,
                  cb \o <<Res(packet, "resolve", [files |-> "files", text |-> "text"]),
                          Reject(TypeErr("_free"))>>,
                  <<setImage, rec, getFiles, dump>>, {}, NoErr)
     ELSE IF fail = "_free"
     THEN Outcome(TessModule, api, params,
                  cb \o <<Res(packet, "resolve", [files |-> "files", text |-> "text"]),
                          Reject(EngineErr("_free"))>>,
                  <<setImage, rec, getFiles, dump, Throw(free)>>, {}, NoErr)
     ELSE Outcome(TessModule, api, params,
                  cb \o <<Res(packet, "resolve", [files |-> "files", text |-> "text"])>>,
                  <<setImage, rec, getFiles, dump, free>>, {}, NoErr)

\* lines 174-201.  found: what DetectOS returns; oid: best_result.orientation_id
detect(packet, fail, found, oid) ==
  LET ptr == packet.jobId
      Reject(e) == Res(packet, "reject", ErrToString(e))
      setImage == Call("setImage", api, <<ptr>>)
      osr == Call("OSResults", NoApi, <<>>)
      det == Call("DetectOS", api, <<>>)
      end == Call("End", api, <<>>)
      free == Call("_free", NoApi, <<ptr>>)
      script == Call("get_script_from_script_id", NoApi, <<1>>)
  IN IF SetImageThrows(fail)
     THEN Outcome(TessModule, api, params, <<Reject(SetImageErr)>>,
                  <<Throw(setImage)>>, {}, NoErr)
     ELSE IF TessModule = 0
     THEN Outcome(TessModule, api, params, <<Reject(TypeErr("OSResults"))>>,
                  <<setImage>>, {}, NoErr)
     ELSE IF fail = "OSResults"
     THEN Outcome(TessModule, api, params, <<Reject(EngineErr("OSResults"))>>,
                  <<setImage, Throw(osr)>>, {}, NoErr)
     ELSE IF api = NoApi
     THEN Outcome(TessModule, api, params,
                  <<Reject(TypeErr("DetectOS"))>>,
                  <<setImage, osr>>, {}, NoErr)
     ELSE IF fail = "DetectOS"
     THEN Outcome(TessModule, api, params, <<Reject(EngineErr("DetectOS"))>>,
                  <<setImage, osr, Throw(det)>>, {}, NoErr)
     ELSE IF ~found /\ fail = "End"
     THEN Outcome(TessModule, api, params, <<Reject(EngineErr("End"))>>,
                  <<setImage, osr, det, Throw(end)>>, {}, NoErr)
     \* line 181: End has returned, the rejection of line 182 is not reached
     ELSE IF ~found /\ fail = "_free"
     THEN Outcome(TessModule, Ended(api, "detect"), params,
                  <<Reject(EngineErr("_free"))>>,
                  <<setImage, osr, det, end, Throw(free)>>, {}, NoErr)
     ELSE IF ~found
     THEN Outcome(TessModule, Ended(api, "detect"), params,
                  <<Res(packet, "reject", "Failed to detect OS")>>,
                  <<setImage, osr, det, end, free>>, {}, NoErr)
     \* line 188
     ELSE IF fail = "_free"
     THEN Outcome(TessModule, api, params, <<Reject(EngineErr("_free"))>>,
                  <<setImage, osr, det, Throw(free)>>, {}, NoErr)
     ELSE IF fail = "get_script_from_script_id"
     THEN Outcome(TessModule, api, params,
                  <<Reject(EngineErr("get_script_from_script_id"))>>,
                  <<setImage, osr, det, free, Throw(script)>>, {}, NoErr)
     ELSE Outcome(TessModule, api, params,
                  <<Res(packet, "resolve",
                        [tesseract_script_id |-> 1, script |-> "Latin",
                         script_confidence |-> 9,
                         orientation_degrees |-> OrientationDegrees[oid + 1],
                         orientation_confidence |-> 9])>>,
                  <<setImage, osr, det, free, script>>, {}, NoErr)

\* terminate that also drops the engine module
terminateUnloads(packet, fail) ==
  LET end == Call("End", api, <<>>)
  IN IF api = NoApi
     THEN Outcome(TessModule, api, params,
                  <<Res(packet, "reject",
                        ErrToString(TypeErr("End")))>>,
                  <<>>, {}, NoErr)
     ELSE IF fail = "End"
     THEN Outcome(TessModule, api, params,
                  <<Res(packet, "reject", ErrToString(EngineErr("End")))>>,
                  <<Throw(end)>>, {}, NoErr)
     ELSE Outcome(0, Ended(api, "terminate"), params,
                  <<Res(packet, "resolve", [terminated |-> TRUE])>>,
                  <<end>>, {}, NoErr)

\* lines 203-210
terminate(packet, fail) ==
  LET end == Call("End", api, <<>>)
  IN IF api = NoApi
     THEN Outcome(TessModule, api, params,
                  <<Res(packet, "reject",
                        ErrToString(TypeErr("End")))>>,
                  <<>>, {}, NoErr)
     ELSE IF fail = "End"
     THEN Outcome(TessModule, api, params,
                  <<Res(packet, "reject", ErrToString(EngineErr("End")))>>,
                  <<Throw(end)>>, {}, NoErr)
     ELSE Outcome(TessModule, Ended(api, "terminate"), params,
                  <<Res(packet, "resolve", [terminated |-> TRUE])>>,
                  <<end>>, {}, NoErr)

(***************************************************************************)
(* dispatchHandlers                                                        *)
(***************************************************************************)

\* the behaviour of the collaborators during one dispatch
Env(fail, failAt, percents, found, oid) ==
  [fail |-> fail, failAt |-> failAt, percents |-> percents, found |-> found,
   oid |-> oid]

Quiet == Env("none", 0, <<>>, TRUE, 0)

\* lines 239-254: the if-chain on packet.action
Route(packet, e) ==
  LET action == packet.action
  IN IF action = "load" THEN load(packet, e.fail)
     ELSE IF action = "load-language" THEN loadLanguage(packet, e.fail)
     ELSE IF action = "initialize" THEN initialize(packet, e.fail, e.failAt)
     ELSE IF action = "set-parameters" THEN setParameters(packet, e.failAt)
     ELSE IF action = "recognize" THEN recognize(packet, e.fail, e.percents)
     ELSE IF action = "detect" THEN detect(packet, e.fail, e.found, e.oid)
     ELSE IF action = "terminate" THEN terminate(packet, e.fail)
     ELSE Outcome(TessModule, api, params, <<>>, <<>>, {}, NoErr)

\* the messages of one step, and what the step did, for the properties;
\* env: what the collaborators did during the step
Step(kind, packet, env, calls, thrown, escaped, out) ==
  [kind |-> kind, packet |-> packet, env |-> env,
   pre |-> [TessModule |-> TessModule, api |-> api, params |-> params],
   calls |-> calls, thrown |-> thrown, escaped |-> escaped, out |-> out]

\* The inputs of a dispatch describe calls the handler makes: the call that
\* is said to throw is the last one made, and progress is reported only
\* by a Recognize that runs.
Consistent(r, e) ==
  /\ e.fail # "none" =>
       /\ r.calls # <<>>
       /\ r.calls[Len(r.calls)].op = e.fail
       /\ r.calls[Len(r.calls)].threw
  /\ (e.fail = "SetVariable") = (e.failAt > 0)
  /\ e.percents # <<>> => \E i \in 1..Len(r.calls) : r.calls[i].op = "Recognize"
  /\ ~e.found => \E i \in 1..Len(r.calls) : r.calls[i].op = "End"

\* the state after a dispatch whose handler left r and which sent `out`
Commit(packet, e, r, out, escaped) ==
  /\ Consistent(r, e)
  /\ ticks + Len(e.percents) <= MaxTicks
  /\ ticks' = ticks + Len(e.percents)
  /\ nextJob' = nextJob + 1
  /\ latestJob' = packet
  /\ TessModule' = r.tm
  /\ api' = r.api
  /\ params' = r.params
  /\ pending' = pending \cup r.pend
  /\ sent' = Log(sent, out, Referenced(packet, pending \cup r.pend, packet))
  /\ last' = Step("dispatch", packet, e, r.calls, r.thrown, escaped, out)
  /\ UNCHANGED isBrowser

\* dispatchHandlers without its try/catch: what the handler throws escapes
dispatchHandlersNoCatch(packet, e) ==
  /\ nextJob < MaxJobs
  /\ \E r \in {Route(packet, e)} :
       Commit(packet, e, r, r.out, r.thrown # NoErr)

\* lines 224-259: store the responder, run the handler, catch what it throws
dispatchHandlers(packet, e) ==
  /\ nextJob < MaxJobs
  /\ \E r \in {Route(packet, e)} :
       Commit(packet, e, r,
              IF r.thrown # NoErr
              THEN Append(r.out, Res(packet, "reject", ErrToString(r.thrown)))
              ELSE r.out,
              FALSE)

DispatchLoad ==
  \E fail \in {"none", "getCore", "Core"} :
    dispatchHandlers(Packet(nextJob + 1, "load", NoLangs, <<>>),
                     Env(fail, 0, <<>>, TRUE, 0))

DispatchLoadLanguage ==
  \E fail \in {"none", "loadLang"} :
    dispatchHandlers(Packet(nextJob + 1, "load-language",
                            [type |-> "string", str |-> "eng", arr |-> <<>>], <<>>),
                     Env(fail, 0, <<>>, TRUE, 0))

DispatchInitialize ==
  \E langs \in LangPayloads, fail \in {"none", "TessBaseAPI", "Init"},
     failAt \in 0..Len(EngineEntries(params)) :
    /\ fail # "none" => failAt = 0
    /\ dispatchHandlers(Packet(nextJob + 1, "initialize", langs, <<>>),
                        Env(IF failAt > 0 THEN "SetVariable" ELSE fail,
                            failAt, <<>>, TRUE, 0))

DispatchSetParameters ==
  \E ps \in ParamPayloads :
    \E failAt \in 0..Len(EngineEntries(ps)) :
      dispatchHandlers(Packet(nextJob + 1, "set-parameters", NoLangs, ps),
                       Env(IF failAt > 0 THEN "SetVariable" ELSE "none",
                           failAt, <<>>, TRUE, 0))

DispatchRecognize ==
  \E fail \in {"none", "setImage", "Recognize", "getFiles", "dump", "_free"},
     n \in 0..(MaxTicks - ticks) :
    \E percents \in [1..n -> Percents] :
      /\ dispatchHandlers(Packet(nextJob + 1, "recognize", NoLangs, <<>>),
                          Env(fail, 0, percents, TRUE, 0))

DispatchDetect ==
  \E fail \in {"none", "setImage", "OSResults", "DetectOS", "End", "_free",
               "get_script_from_script_id"},
     found \in BOOLEAN, oid \in 0..3 :
    /\ (fail # "none" \/ ~found) => oid = 0
    /\ dispatchHandlers(Packet(nextJob + 1, "detect", NoLangs, <<>>),
                        Env(fail, 0, <<>>, found, oid))

DispatchTerminate ==
  \E fail \in {"none", "End"} :
    dispatchHandlers(Packet(nextJob + 1, "terminate", NoLangs, <<>>),
                     Env(fail, 0, <<>>, TRUE, 0))

\* an action outside the seven of lines 240-253
DispatchUnknown ==
  dispatchHandlers(Packet(nextJob + 1, "unknown", NoLangs, <<>>), Quiet)

(***************************************************************************)
(* Promise callbacks                                                       *)
(***************************************************************************)
\* a callback sending through the responder stored in latestJob
ResponderLatest(pd) == latestJob

\* the responder `res` the callbacks of a handler close over: the one
\* dispatchHandlers made for the envelope that started the handler
Responder(pd) == pd.packet

Continue(kind, pd, tm, err, out) ==
  /\ pending' = pending \ {pd}
  /\ TessModule' = tm
  /\ sent' = Log(sent, out, Referenced(latestJob, pending \ {pd}, pd.packet))
  /\ last' = Step(kind, pd.packet, Quiet, <<>>, err, FALSE, out)
  /\ UNCHANGED <<api, latestJob, params, nextJob, ticks, isBrowser>>

\* lines 57-61: the promise of Core fulfils with a new module
CoreThen ==
  \E pd \in pending :
    /\ pd.kind = "load"
    /\ Continue("then", pd, pd.packet.jobId, NoErr,
                <<Res(Responder(pd), "progress",
                      ProgressData(NoId, "initialized tesseract", ProgressUnit)),
                  Res(Responder(pd), "resolve", [loaded |-> TRUE])>>)

\* lines 47-61: the promise of Core rejects; no handler is attached
CoreRejected ==
  \E pd \in pending :
    /\ pd.kind = "load"
    /\ Continue("rejected", pd, TessModule, AbortErr, <<>>)

\* lines 81-84
LoadLangThen ==
  \E pd \in pending :
    /\ pd.kind = "load-language"
    /\ Continue("then", pd, TessModule, NoErr,
                <<Res(Responder(pd), "progress",
                      ProgressData(NoId, "loaded language traineddata", ProgressUnit)),
                  Res(Responder(pd), "resolve", pd.packet.payload.langs.str)>>)

\* lines 84-94
LoadLangCatch ==
  \E pd \in pending, err \in {EngineErr("fetch"), DomErr} :
    /\ pd.kind = "load-language"
    /\ Continue("catch", pd, TessModule, err,
                IF isBrowser /\ err.dom
                THEN <<>>
                ELSE <<Res(Responder(pd), "reject", ErrToString(err))>>)

(***************************************************************************)
(* Specification                                                           *)
(***************************************************************************)
Init ==
  /\ TessModule = 0
  /\ api = NoApi
  /\ latestJob = NoPacket
  /\ params = defaultParams
  /\ sent = <<>>
  /\ pending = {}
  /\ nextJob = 0
  /\ ticks = 0
  /\ isBrowser \in BOOLEAN
  /\ last = Step("init", NoPacket, Quiet, <<>>, NoErr, FALSE, <<>>)

Next ==
  \/ DispatchLoad
  \/ DispatchLoadLanguage
  \/ DispatchInitialize
  \/ DispatchSetParameters
  \/ DispatchRecognize
  \/ DispatchDetect
  \/ DispatchTerminate
  \/ DispatchUnknown
  \/ CoreThen
  \/ CoreRejected
  \/ LoadLangThen
  \/ LoadLangCatch

Spec == Init /\ [][Next]_vars

(***************************************************************************)
(* Properties                                                              *)
(***************************************************************************)
Terminal(m) == m.status \in {"resolve", "reject"}

\* the step just taken was the dispatch of an envelope with this action
Dispatched(action) == last.kind = "dispatch" /\ last.packet.action = action

\* no promise callback of envelope j is still to run
Settled(j) == \A pd \in pending : pd.packet.jobId # j

\* the terminal messages the step just taken sent
TerminalsOut == SelectSeq(last.out, Terminal)

\* C1: for every envelope with one of the seven actions, once its handler
\* and the promise callbacks it registered have run, exactly one resolve or
\* reject has been sent for it, and no message for an envelope follows its
\* resolve or reject.
C1_ExactlyOneTerminal ==
  /\ \A i, k \in 1..Len(sent) :
       (i < k /\ sent[i].jobId = sent[k].jobId) => ~Terminal(sent[i])
  /\ (last.kind # "init" /\ last.packet.action \in Actions
      /\ Settled(last.packet.jobId)) =>
       \E i \in 1..Len(sent) :
         sent[i].jobId = last.packet.jobId /\ Terminal(sent[i])

\* C2: when the handler selected by dispatchHandlers throws, the exception
\* does not leave dispatchHandlers and the only terminal message sent is one
\* reject whose data is the error's toString().
C2_SyncThrowRejected ==
  (last.kind = "dispatch" /\ last.thrown # NoErr) =>
    /\ ~last.escaped
    /\ TerminalsOut = <<Res(last.packet, "reject", ErrToString(last.thrown))>>
    /\ Len(SelectSeq(sent, LAMBDA m : m.jobId = last.packet.jobId /\ Terminal(m))) = 1
    /\ Settled(last.packet.jobId)

\* a set-parameters without a session threw a TypeError that was rejected
C2_Witness ==
  /\ Dispatched("set-parameters")
  /\ last.thrown.name = "TypeError"
  /\ last.out = <<Res(last.packet, "reject", ErrToString(last.thrown))>>

\* the calls of the step just taken to the collaborator routine `op`
CallsOf(op) == SelectSeq(last.calls, LAMBDA c : c.op = op)

\* the image encoder returned a buffer handle in the step just taken
HandleReturned == \E i \in 1..Len(last.calls) :
  last.calls[i].op = "setImage" /\ ~last.calls[i].threw

\* C3: in every recognize and detect in which setImage returned a buffer
\* handle, TessModule._free is called exactly once, on that handle, before
\* the handler finishes.
C3_BufferReleasedOnce ==
  ((Dispatched("recognize") \/ Dispatched("detect")) /\ HandleReturned) =>
    /\ Len(CallsOf("_free")) = 1
    /\ CallsOf("_free")[1].args = CallsOf("setImage")[1].args

SessionRoutines == {"SetVariable", "Recognize", "DetectOS", "End"}

\* C4: no dispatch calls SetVariable, Recognize, DetectOS or End on a
\* session that a resolved terminate has ended.
C4_NoUseAfterTerminate ==
  last.kind = "dispatch" =>
    \A i \in 1..Len(last.calls) :
      ~(/\ last.calls[i].op \in SessionRoutines
        /\ last.calls[i].ended
        /\ last.calls[i].endedBy = "terminate")

\* C5: a load dispatched while the engine module exists sends
\* resolve({loaded: true}) and nothing else, calls neither adapter.getCore
\* nor the factory, registers no promise, and leaves TessModule unchanged.
C5_LoadIdempotent ==
  (Dispatched("load") /\ last.pre.TessModule # 0) =>
    /\ Len(last.out) = 1
    /\ last.out[1].status = "resolve"
    /\ last.out = <<Res(last.packet, "resolve", [loaded |-> TRUE])>>
    /\ SelectSeq(sent, LAMBDA m : m.jobId = last.packet.jobId)
         = <<[jobId |-> last.packet.jobId, status |-> "resolve", progress |-> -1]>>
    /\ last.calls = <<>>
    /\ Settled(last.packet.jobId)
    /\ TessModule = last.pre.TessModule

\* a load was dispatched after an earlier load had installed the module
C5_Witness ==
  /\ Dispatched("load")
  /\ last.pre.TessModule # 0
  /\ last.packet.jobId > last.pre.TessModule

\* C6 as claimed: once TessModule is assigned, no step changes it.
C6_AssignedOnce ==
  last.pre.TessModule # 0 => TessModule = last.pre.TessModule

\* C6 as amended: TessModule changes only when the promise of a load's
\* Core call fulfils, and then to that load's module; it never becomes
\* undefined again; a load dispatched once it is assigned registers no
\* promise, so only loads dispatched before the first assignment replace it.
C6_AssignedOnlyByLoadCompletion ==
  /\ TessModule # last.pre.TessModule =>
       /\ last.kind = "then"
       /\ last.packet.action = "load"
       /\ TessModule = last.packet.jobId
  /\ last.pre.TessModule # 0 => TessModule # 0
  /\ (Dispatched("load") /\ last.pre.TessModule # 0) => Settled(last.packet.jobId)

\* the second of two overlapping loads completed and replaced the module
C6_Witness ==
  /\ last.kind = "then"
  /\ last.packet.action = "load"
  /\ last.pre.TessModule # 0
  /\ TessModule # last.pre.TessModule

\* every non-reserved entry of the stored parameters was pushed to session a
AllPushed(a) ==
  \A i \in 1..Len(params) :
    ~StartsWith(params[i][1], "tessjs_") => params[i] \in a.pushed

\* C7: whenever a session handle exists, every non-reserved key of the
\* stored parameters has been pushed to it with the stored value.
C7_PushedToHandle == api # NoApi => AllPushed(api)

\* C8: a set-parameters dispatched with a session calls SetVariable only
\* for non-reserved keys of the payload, each with its payload value; when no
\* call throws it calls it for every such key exactly once, the store becomes
\* the previous store overridden by the whole payload, and the resolve data
\* is that store.
C8_SetParameters ==
  (Dispatched("set-parameters") /\ last.pre.api # NoApi) =>
    LET ps == last.packet.payload.params
        sv == last.calls
    IN /\ \A i \in 1..Len(sv) :
            /\ sv[i].op = "SetVariable"
            /\ \E n \in 1..Len(ps) :
                 ps[n] = sv[i].args /\ ~StartsWith(ps[n][1], "tessjs_")
       /\ last.thrown = NoErr =>
            /\ \A n \in 1..Len(ps) :
                 IF StartsWith(ps[n][1], "tessjs_")
                 THEN \A i \in 1..Len(sv) : sv[i].args # ps[n]
                 ELSE Cardinality({i \in 1..Len(sv) : sv[i].args = ps[n]}) = 1
            /\ {params[i][1] : i \in 1..Len(params)}
                 = {last.pre.params[i][1] : i \in 1..Len(last.pre.params)}
                   \cup {ps[n][1] : n \in 1..Len(ps)}
            /\ \A i \in 1..Len(params) :
                 params[i][2] = IF HasKey(ps, params[i][1])
                                THEN Get(ps, params[i][1])
                                ELSE Get(last.pre.params, params[i][1])
            /\ last.out = <<Res(last.packet, "resolve", params)>>

\* the payload of P3, a reserved and a non-reserved key, on a live session
C8_Witness ==
  /\ Dispatched("set-parameters")
  /\ last.pre.api.ready /\ ~last.pre.api.ended
  /\ last.packet.payload.params
       = << <<"tessjs_create_pdf", "1">>, <<"tessedit_char_whitelist", "ab">> >>
  /\ last.thrown = NoErr
  /\ Len(last.calls) = 1
  /\ Get(params, "tessjs_create_pdf") = "1"

\* the payload has a key that does not start with the reserved prefix
HasEngineKey(ps) == \E n \in 1..Len(ps) : ~StartsWith(ps[n][1], "tessjs_")

\* C9 as claimed: a set-parameters dispatched without a session throws in
\* the handler and is answered by a reject, never by a resolve.
C9_NoSessionRejects ==
  (Dispatched("set-parameters") /\ last.pre.api = NoApi) =>
    /\ last.thrown # NoErr
    /\ \A i \in 1..Len(last.out) : last.out[i].status = "reject"
    /\ last.out # <<>>

\* C9 as amended: without a session, a set-parameters whose payload has a
\* non-reserved key throws a TypeError, is answered by one reject and leaves
\* the store unchanged; a payload without such a key is merged and resolved.
C9_NoSessionRejectsEngineKeys ==
  (Dispatched("set-parameters") /\ last.pre.api = NoApi) =>
    IF HasEngineKey(last.packet.payload.params)
    THEN /\ last.thrown # NoErr
         /\ last.thrown.name = "TypeError"
         /\ last.out = <<Res(last.packet, "reject", ErrToString(last.thrown))>>
         /\ params = last.pre.params
    ELSE /\ last.thrown = NoErr
         /\ last.out = <<Res(last.packet, "resolve", params)>>
         /\ \A i \in 1..Len(params) :
              params[i][2] = IF HasKey(last.packet.payload.params, params[i][1])
                             THEN Get(last.packet.payload.params, params[i][1])
                             ELSE Get(last.pre.params, params[i][1])
         /\ \A n \in 1..Len(last.packet.payload.params) :
              HasKey(params, last.packet.payload.params[n][1])

\* without a session, a payload with non-reserved keys was rejected
C9_Witness ==
  /\ Dispatched("set-parameters")
  /\ last.pre.api = NoApi
  /\ HasEngineKey(last.packet.payload.params)
  /\ TerminalsOut # <<>>
  /\ TerminalsOut[1].status = "reject"

\* C10: an initialize dispatched while TessModule is undefined is answered
\* by exactly one reject; nothing escapes dispatchHandlers, no resolve and no
\* progress 1 is sent, and api stays undefined.
C10_InitializeWithoutLoad ==
  (Dispatched("initialize") /\ last.pre.TessModule = 0) =>
    /\ ~last.escaped
    /\ Len(TerminalsOut) = 1
    /\ TerminalsOut[1].status = "reject"
    /\ \A i \in 1..Len(last.out) :
         last.out[i].status = "progress" => last.out[i].data.progress # ProgressUnit
    /\ api = NoApi
    /\ Settled(last.packet.jobId)

\* initialize with langs 'eng' and no module: the TypeError was rejected
C10_Witness ==
  /\ Dispatched("initialize")
  /\ last.pre.TessModule = 0
  /\ last.packet.payload.langs.type = "string"
  /\ Len(last.out) = 2
  /\ last.out[1].status = "progress"
  /\ last.out[2].status = "reject"
  /\ StartsWith(last.out[2].data, "TypeError")

\* the progress messages among the messages of the step just taken
ProgressOut == SelectSeq(last.out, LAMBDA m : m.status = "progress")

\* C11: every message the engine's progress callback sends carries the
\* workerId, jobId and action of the envelope passed to dispatchHandlers
\* last (the one stored in latestJob), while its data names the load that
\* registered the callback.
C11_CallbackRoutedToLatest ==
  Dispatched("recognize") =>
    /\ latestJob = last.packet
    /\ ProgressOut # <<>> => CallsOf("Recognize") # <<>>
    /\ \A i \in 1..Len(ProgressOut) :
         /\ ProgressOut[i].workerId = latestJob.workerId
         /\ ProgressOut[i].jobId = latestJob.jobId
         /\ ProgressOut[i].action = latestJob.action
         /\ ProgressOut[i].data.jobId = last.pre.api.tm
         /\ ProgressOut[i].data.status = "recognizing text"

\* the engine called back during a recognize: the message went to the
\* recognize envelope, not to the load that registered the callback
C11_Witness ==
  /\ Dispatched("recognize")
  /\ ProgressOut # <<>>
  /\ ProgressOut[1].data.jobId # ProgressOut[1].jobId
  /\ ProgressOut[1].data.jobId = last.pre.TessModule

\* the progress messages sent so far for envelope j
ProgressOf(j) ==
  SelectSeq(sent, LAMBDA m : m.jobId = j /\ m.status = "progress")

\* C12: the progress values sent for an envelope lie in [0, 1] and never
\* decrease, those of the engine's callback included.
C12_ProgressMonotoneInRange ==
  \A j \in 1..nextJob :
    /\ \A i \in 1..Len(ProgressOf(j)) :
         ProgressOf(j)[i].progress \in 0..ProgressUnit
    /\ \A i, k \in 1..Len(ProgressOf(j)) :
         i < k => ProgressOf(j)[i].progress <= ProgressOf(j)[k].progress

\* the headers sent so far for envelope j
SentFor(j) == SelectSeq(sent, LAMBDA m : m.jobId = j)

\* what `sent` keeps of a message with this status and progress
Hdr(j, status, progress) ==
  [jobId |-> j, status |-> status, progress |-> progress]

\* C13: a load-language sends progress 0 and then invokes the loader; when
\* the loader's promise fulfils it sends progress 1 and resolve(langs); when
\* the loader fails with an error that is not the DOMException swallowed in
\* a browser it sends reject(err.toString()) and neither progress 1 nor
\* resolve.
C13_LoadLanguageProtocol ==
  LET j == last.packet.jobId
      langs == last.packet.payload.langs.str
  IN last.packet.action = "load-language" =>
       /\ last.kind = "dispatch" =>
            /\ last.out[1].status = "progress"
            /\ last.out[1].data.progress = 0
            /\ last.calls[1].op = "loadLang" /\ last.calls[1].after = 1
            /\ Len(last.calls) = 1
            /\ IF last.thrown = NoErr
               THEN SentFor(j) = <<Hdr(j, "progress", 0)>> /\ ~Settled(j)
               ELSE /\ Len(last.out) = 2
                    /\ last.out[2] = Res(last.packet, "reject", ErrToString(last.thrown))
                    /\ SentFor(j) = <<Hdr(j, "progress", 0), Hdr(j, "reject", -1)>>
                    /\ Settled(j)
       /\ last.kind = "then" =>
            /\ last.out[2] = Res(last.packet, "resolve", langs)
            /\ SentFor(j) = <<Hdr(j, "progress", 0), Hdr(j, "progress", ProgressUnit),
                              Hdr(j, "resolve", -1)>>
       /\ (last.kind = "catch" /\ ~(isBrowser /\ last.thrown.dom)) =>
            /\ last.out = <<Res(last.packet, "reject", ErrToString(last.thrown))>>
            /\ SentFor(j) = <<Hdr(j, "progress", 0), Hdr(j, "reject", -1)>>

\* outside a browser the loader failed with a DOMException: it was rejected
C13_Witness ==
  /\ last.packet.action = "load-language"
  /\ last.kind = "catch"
  /\ ~isBrowser /\ last.thrown.dom
  /\ last.out # <<>> /\ last.out[1].status = "reject"

\* the entries 1..n of a langs array, each a string or the data field of an
\* object, with '+' between neighbours
RECURSIVE PlusJoined(_, _)
PlusJoined(arr, n) ==
  IF n = 0 THEN ""
  ELSE LET e == IF arr[n].type = "string" THEN arr[n].str ELSE arr[n].data
       IN IF n = 1 THEN e ELSE PlusJoined(arr, n - 1) \o "+" \o e

\* C14: the language string an initialize passes to Init is the langs value
\* when that is a string, and otherwise its entries in order, a string as
\* itself and an object as its data field, joined with '+'.
C14_InitLangs ==
  Dispatched("initialize") =>
    LET langs == last.packet.payload.langs
    IN /\ Len(CallsOf("Init")) <= 1
       /\ \A i \in 1..Len(CallsOf("Init")) :
            /\ CallsOf("Init")[i].args[1] =
                 IF langs.type = "string" THEN langs.str
                 ELSE PlusJoined(langs.arr, Len(langs.arr))
            /\ langs = [type |-> "array", str |-> "",
                        arr |-> << [type |-> "string", str |-> "eng", data |-> ""],
                                   [type |-> "object", str |-> "", data |-> "chi_tra"] >>]
                 => CallsOf("Init")[i].args[1] = "eng+chi_tra"

\* Init was called for langs = ['eng', {data: 'chi_tra'}]
C14_Witness ==
  /\ Dispatched("initialize")
  /\ last.packet.payload.langs.type = "array"
  /\ Len(last.packet.payload.langs.arr) = 2
  /\ CallsOf("Init") # <<>>
  /\ CallsOf("Init")[1].args[1] = "eng+chi_tra"

\* the resolve messages among the messages of the step just taken
ResolveOut == SelectSeq(last.out, LAMBDA m : m.status = "resolve")

\* C15: a detect that resolves for a best result with orientation id i in
\* 0..3 reports orientation_degrees 0, 270, 180, 90 for i = 0, 1, 2, 3,
\* whatever the stored parameters are.
C15_OrientationDegrees ==
  (Dispatched("detect") /\ ResolveOut # <<>>) =>
    /\ last.env.found
    /\ last.env.oid \in 0..3
    /\ Len(ResolveOut) = 1
    /\ ResolveOut[1].data.orientation_degrees =
         CASE last.env.oid = 0 -> 0
           [] last.env.oid = 1 -> 270
           [] last.env.oid = 2 -> 180
           [] last.env.oid = 3 -> 90

\* a detect with orientation id 1 resolved with 270 degrees after a
\* set-parameters had changed the stored parameters
C15_Witness ==
  /\ Dispatched("detect")
  /\ ResolveOut # <<>>
  /\ last.env.oid = 1
  /\ ResolveOut[1].data.orientation_degrees = 270
  /\ params # defaultParams

\* C16: after an initialize was rejected, no set-parameters, recognize,
\* detect or terminate calls a session routine on a session handle until an
\* initialize has resolved; and an initialize that resolves leaves in api a
\* session constructed during that initialize.
C16_FailedSessionUnused ==
  /\ (last.kind = "dispatch"
      /\ last.packet.action \in {"set-parameters", "recognize", "detect", "terminate"}) =>
       \A i \in 1..Len(last.calls) :
         last.calls[i].op \in SessionRoutines => last.calls[i].usable
  /\ (Dispatched("initialize") /\ ResolveOut # <<>>) =>
       /\ api.id = last.packet.jobId
       /\ api.ready /\ ~api.rejected

\* C17: an initialize, resolved or rejected, leaves the stored parameters
\* as they were; re-applying them to the new session sends nothing: an
\* initialize that resolves sends progress 0, progress 1 and a resolve
\* without data, and no other initialize sends a resolve.
C17_InitializeKeepsParams ==
  Dispatched("initialize") =>
    LET j == last.packet.jobId
    IN /\ params = last.pre.params
       /\ Len(ResolveOut) <= 1
       /\ ResolveOut # <<>> =>
            /\ last.out =
                 << Res(last.packet, "progress", ProgressData(j, "initializing api", 0)),
                    Res(last.packet, "progress",
                        ProgressData(j, "initialized api", ProgressUnit)),
                    Res(last.packet, "resolve", "undefined") >>
            /\ CallsOf("SetVariable") = AllAfter(
                 SetVariableCalls([NoApi EXCEPT !.id = j, !.tm = TessModule,
                                                !.inited = TRUE],
                                  EngineEntries(params), 0), 1)
       /\ ResolveOut = <<>> =>
            /\ Len(TerminalsOut) = 1
            /\ TerminalsOut[1].status = "reject"

\* an initialize resolved after a set-parameters had put a new engine
\* parameter in the store: it pushed two parameters and sent three messages
C17_Witness ==
  /\ Dispatched("initialize")
  /\ ResolveOut # <<>>
  /\ HasKey(params, "tessedit_char_whitelist")
  /\ Len(CallsOf("SetVariable")) = 2
  /\ Len(last.out) = 3

\* in the detect just dispatched DetectOS returned false
DetectFailed ==
  /\ Dispatched("detect")
  /\ ~last.env.found
  /\ \E i \in 1..Len(last.calls) :
       last.calls[i].op = "DetectOS" /\ ~last.calls[i].threw

\* End and then _free of the buffer were the last calls, both returned,
\* both before any message, and the only message is the fixed reject
TornDownThenRejected ==
  LET n == Len(last.calls)
  IN /\ last.calls[n - 1].op = "End" /\ ~last.calls[n - 1].threw
     /\ last.calls[n - 1].sess = last.pre.api.id
     /\ last.calls[n].op = "_free" /\ ~last.calls[n].threw
     /\ last.calls[n].args = CallsOf("setImage")[1].args
     /\ last.calls[n - 1].after = 0 /\ last.calls[n].after = 0
     /\ Len(CallsOf("End")) = 1 /\ Len(CallsOf("_free")) = 1
     /\ last.out = <<Res(last.packet, "reject", "Failed to detect OS")>>
     /\ api.ended

\* C18: when DetectOS reports failure the handler calls End(), releases the
\* image buffer and then rejects with 'Failed to detect OS', in this order,
\* and sends nothing else.
C18_DetectFailure == DetectFailed => TornDownThenRejected

\* C19: a set-parameters that ends in a reject leaves the stored parameters
\* as they were; the store changes only when every non-reserved key of the
\* payload was pushed and no call threw.
C19_RejectKeepsParams ==
  Dispatched("set-parameters") =>
    /\ (\E i \in 1..Len(last.out) : last.out[i].status = "reject") =>
         /\ params = last.pre.params
         /\ last.thrown # NoErr
    /\ params # last.pre.params =>
         /\ last.thrown = NoErr
         /\ \A i \in 1..Len(last.calls) : ~last.calls[i].threw
         /\ Len(CallsOf("SetVariable")) =
              Cardinality({n \in 1..Len(last.packet.payload.params) :
                 ~StartsWith(last.packet.payload.params[n][1], "tessjs_")})

\* the second SetVariable of a set-parameters threw after the first had
\* pushed a new value: rejected, store unchanged
C19_Witness ==
  /\ Dispatched("set-parameters")
  /\ Len(last.calls) = 2
  /\ ~last.calls[1].threw /\ last.calls[2].threw
  /\ last.calls[1].args \notin {last.pre.params[i] : i \in 1..Len(last.pre.params)}
  /\ TerminalsOut # <<>> /\ TerminalsOut[1].status = "reject"
  /\ params = last.pre.params

\* the step just taken was a callback of a promise
Completion == last.kind \in {"then", "catch", "rejected"}

\* C20: the messages a load or load-language sends when its promise
\* settles carry the workerId, jobId and action of the envelope that
\* started it, whatever was dispatched in between; a load whose promise
\* fulfils receives progress 0, progress 1 and its own resolve.
C20_CompletionCorrelated ==
  Completion =>
    LET j == last.packet.jobId
    IN /\ last.packet.action \in {"load", "load-language"}
       /\ j \in 1..nextJob
       /\ \A i \in 1..Len(last.out) :
            /\ last.out[i].workerId = last.packet.workerId
            /\ last.out[i].jobId = j
            /\ last.out[i].action = last.packet.action
       /\ last.kind = "then" =>
            SentFor(j) = <<Hdr(j, "progress", 0), Hdr(j, "progress", ProgressUnit),
                          Hdr(j, "resolve", -1)>>

\* the first of two loads pending together completed while a later
\* envelope was the latest one: it got its own resolve
C20_Witness ==
  /\ last.kind = "then"
  /\ last.packet.action = "load"
  /\ latestJob.jobId # last.packet.jobId
  /\ \E pd \in pending : pd.kind = "load" /\ pd.packet.jobId > last.packet.jobId
  /\ last.out[2] = Res(last.packet, "resolve", [loaded |-> TRUE])

====
